---- MODULE Spec2Model ----
(***************************************************************************)
(* Model of git_fetch.py: the command dispatcher (main) and the monitored  *)
(* runner (run_git_command) that supervises a child git process, relays    *)
(* its output, watches the reported throughput and retries.                *)
(* Of the diagnostics printed to sys.stderr the state keeps the last one.   *)
(* Time passes while the loop is blocked in a read and during time.sleep.  *)
(***************************************************************************)
EXTENDS Integers, Sequences, FiniteSets, TLC

\* ---------------------------------------------------------------- bounds
MaxRetries == 2     \* MAX_RETRIES ranges over 0..MaxRetries
MaxWindow == 2      \* SPEED_WINDOW_SIZE ranges over 0..MaxWindow
MaxLines == 2       \* lines a child writes before it closes its stream
MaxStep == 1        \* seconds that may pass while blocked in one read
MaxArgs == 2        \* length of the argument vector

\* ------------------------------------------------- configuration (l.11-21)
\* The values are the defaults, but for the grace period: it is read from
\* GIT_FETCH_TIMEOUT_BEFORE_SPEED_CHECK and set to 2 seconds here, so that a
\* child can outlast it within MaxLines reads, and for the threshold: it is
\* read from GIT_FETCH_SPEED_THRESHOLD and set to 756 KiB/s here, so that the
\* means of the windows built from Lines fall below it, on it and above it.
GIT_EXECUTABLE_PATH == "/usr/bin/git_orig"
SPEED_THRESHOLD == 756
SPEED_CHECK_INTERVAL == 1
RETRY_DELAY == 1
FETCH_TIMEOUT_BEFORE_SPEED_CHECK == 2

\* Python's None where an int is expected (result, returncode, exit status)
None == -1000

\* no line read yet
NoLine == [num |-> <<>>, unit |-> "", eol |-> ""]

VARIABLES
  exe_exists,             \* os.path.exists(GIT_EXECUTABLE_PATH)
  MAX_RETRIES,            \* int(GIT_FETCH_MAX_RETRIES)
  SPEED_WINDOW_SIZE,      \* int(GIT_FETCH_SPEED_WINDOW_SIZE)
  argv,                   \* sys.argv[1:] as given by the caller
  pc,                     \* position of the single thread of control
  git_args, git_command,  \* main's locals
  result, exit_status,    \* main's result and the status given to sys.exit
  entered,                \* run_git_command has been called
  retries,                \* run_git_command's retry counter
  speed_measurements,     \* deque(maxlen=SPEED_WINDOW_SIZE)
  start_time, last_speed_check_time, current_time,
  speed_reported,
  line,                   \* the line the for loop is processing
  returncode,             \* process.returncode
  now,                    \* the wall clock, time.time()
  children,               \* status of every child spawned with Popen
  childOut,               \* raw lines the current child has written
  stdout,                 \* lines the current attempt wrote to sys.stdout
  called,                 \* executions made with subprocess.call
  attempt,                \* how the latest monitored attempt stands
  sleeps,                 \* number of time.sleep(RETRY_DELAY) calls
  diag                    \* the last diagnostic printed to sys.stderr

vars == <<exe_exists, MAX_RETRIES, SPEED_WINDOW_SIZE, argv, pc, git_args,
          git_command, result, exit_status, entered, retries,
          speed_measurements, start_time, last_speed_check_time,
          current_time, speed_reported, line, returncode, now, children,
          childOut, stdout, called, attempt, sleeps, diag>>

config == <<exe_exists, MAX_RETRIES, SPEED_WINDOW_SIZE, argv>>
mainLocals == <<git_args, git_command, result, exit_status, entered>>
attemptLocals == <<speed_measurements, start_time, last_speed_check_time,
                   current_time, speed_reported, line>>
streams == <<childOut, stdout>>

\* ------------------------------------------------------------ input data
Tokens == {"fetch", "--progress", "status"}

ArgVectors == UNION {[1..n -> Tokens] : n \in 0..MaxArgs}

\* A line of the child's combined output.  num and unit are the text of the
\* first place in the line where "<[0-9.]+> <letter>iB/s" could match; eol is
\* the terminator the child wrote.
Lines ==
  { [num |-> <<>>,                     unit |-> "",  eol |-> "LF"],
    [num |-> <<"0", ".", "5">>,        unit |-> "M", eol |-> "CR"],
    [num |-> <<"1", "0", "0", "0">>,   unit |-> "K", eol |-> "LF"],
    [num |-> <<"1", ".", "2", ".", "3">>, unit |-> "G", eol |-> "LF"] }

ExitCodes == {0, 1, 128}     \* exit status of a child that ran to its end
TermCodes == {-15, 0}        \* returncode of a child after terminate()

\* ------------------------------------------------------- pure operations
Contains(s, x) == \E i \in 1..Len(s) : s[i] = x

Count(s, x) == Cardinality({i \in 1..Len(s) : s[i] = x})

\* the flag appended without looking for it
EnsureProgress_Always(args) == Append(args, "--progress")

\* main, l.134-135: append the flag unless it is there
EnsureProgress(args) ==
  IF ~Contains(args, "--progress") THEN Append(args, "--progress") ELSE args

\* Popen(..., universal_newlines=True): the text layer hands out every line
\* with its terminator translated to "\n"
TextModeLine(raw) == [raw EXCEPT !.eol = "LF"]

DigitValue(c) ==
  CASE c = "0" -> 0 [] c = "1" -> 1 [] c = "2" -> 2 [] c = "3" -> 3
    [] c = "4" -> 4 [] c = "5" -> 5 [] c = "6" -> 6 [] c = "7" -> 7
    [] c = "8" -> 8 [] c = "9" -> 9

IsDigit(c) == c # "."

RECURSIVE DecValue(_)
DecValue(ds) ==
  IF ds = <<>> THEN 0
  ELSE 10 * DecValue(SubSeq(ds, 1, Len(ds) - 1)) + DigitValue(ds[Len(ds)])

RECURSIVE Pow10(_)
Pow10(k) == IF k = 0 THEN 1 ELSE 10 * Pow10(k - 1)

\* re.search(r"([0-9.]+) ([KMG])iB/s", line)
SpeedMatch(l) == l.num # <<>> /\ l.unit \in {"K", "M", "G"}

\* float(speed_match.group(1)) raises ValueError unless the text is digits
\* with at most one point
FloatOk(num) == Count(num, ".") <= 1 /\ SelectSeq(num, IsDigit) # <<>>

\* digits after the decimal point
Scale(num) ==
  IF Count(num, ".") = 0 THEN 0
  ELSE Len(num) - (CHOOSE i \in 1..Len(num) : num[i] = ".")

UnitFactor(unit) ==
  CASE unit = "M" -> 1024 [] unit = "G" -> 1024 * 1024 [] OTHER -> 1

\* l.82-88: int(float(text) * factor), truncating
SpeedKiB(l) ==
  (DecValue(SelectSeq(l.num, IsDigit)) * UnitFactor(l.unit)) \div Pow10(Scale(l.num))

\* a full window that refuses the new sample instead of evicting the oldest
DequeAppend_DropNewest(d, n, x) == IF Len(d) < n THEN Append(d, x) ELSE d

\* deque(maxlen=n).append(x)
DequeAppend(d, n, x) ==
  IF n = 0 THEN d
  ELSE IF Len(d) < n THEN Append(d, x)
  ELSE Append(Tail(d), x)

RECURSIVE Sum(_)
Sum(s) == IF s = <<>> THEN 0 ELSE Head(s) + Sum(Tail(s))

\* the comparison made with <= instead of <
AvgBelowThreshold_OrEqual(w) == Sum(w) <= SPEED_THRESHOLD * Len(w)

\* l.92-93: sum(w) / len(w) < SPEED_THRESHOLD, for a non-empty w
AvgBelowThreshold(w) == Sum(w) < SPEED_THRESHOLD * Len(w)

SetLast(s, v) == [s EXCEPT ![Len(s)] = v]

\* --------------------------------------------------------------- initial
\* everything but the configuration and the argument vector
InitLocals ==
  /\ pc = "main"
  /\ git_args = <<>>
  /\ git_command = <<>>
  /\ result = None
  /\ exit_status = None
  /\ entered = FALSE
  /\ retries = 0
  /\ speed_measurements = <<>>
  /\ start_time = 0
  /\ last_speed_check_time = 0
  /\ current_time = 0
  /\ speed_reported = FALSE
  /\ line = NoLine
  /\ returncode = None
  /\ now = 0
  /\ children = <<>>
  /\ childOut = <<>>
  /\ stdout = <<>>
  /\ called = <<>>
  /\ attempt = "NONE"
  /\ sleeps = 0
  /\ diag = ""

\* the runner under every configuration, for one fetch and one other command
Init ==
  /\ exe_exists \in BOOLEAN
  /\ MAX_RETRIES \in 0..MaxRetries
  /\ SPEED_WINDOW_SIZE \in 0..MaxWindow
  /\ argv \in {<<"fetch">>, <<"status">>}
  /\ InitLocals

\* the dispatcher under every argument vector, for one configuration
InitDispatch ==
  /\ exe_exists \in BOOLEAN
  /\ MAX_RETRIES = 2
  /\ SPEED_WINDOW_SIZE = 1
  /\ argv \in ArgVectors
  /\ InitLocals

\* ------------------------------------------------------------------ main
\* the diagnostic printed but sys.exit(1) forgotten
CheckExecutable_NoExit ==
  /\ pc = "main"
  /\ diag' = IF exe_exists THEN diag ELSE "executable not found"
  /\ pc' = "args"
  /\ UNCHANGED <<config, git_args, git_command, result, exit_status, entered,
                 retries, attemptLocals, returncode, now, children, streams,
                 called, attempt, sleeps>>

\* l.124-129
CheckExecutable ==
  /\ pc = "main"
  /\ IF exe_exists
       THEN pc' = "args" /\ UNCHANGED <<exit_status, diag>>
       ELSE /\ diag' = "executable not found"
            /\ exit_status' = 1
            /\ pc' = "exited"
  /\ UNCHANGED <<config, git_args, git_command, result, entered, retries,
                 attemptLocals, returncode, now, children, streams, called,
                 attempt, sleeps>>

\* the flag added before the test for "fetch"
Dispatch_AlwaysProgress ==
  /\ pc = "args"
  /\ git_args' = EnsureProgress(argv)
  /\ git_command' = <<GIT_EXECUTABLE_PATH>> \o git_args'
  /\ entered' = Contains(argv, "fetch")
  /\ pc' = IF Contains(argv, "fetch") THEN "loop" ELSE "direct"
  /\ UNCHANGED <<config, diag, result, exit_status, retries, attemptLocals,
                 returncode, now, children, streams, called, attempt, sleeps>>

\* l.131-141: build the command, pick the monitored or the direct path
Dispatch ==
  /\ pc = "args"
  /\ IF Contains(argv, "fetch")
       THEN /\ git_args' = EnsureProgress(argv)
            /\ git_command' = <<GIT_EXECUTABLE_PATH>> \o git_args'
            /\ entered' = TRUE
            /\ pc' = "loop"
       ELSE /\ git_args' = argv
            /\ git_command' = <<GIT_EXECUTABLE_PATH>> \o git_args'
            /\ entered' = FALSE
            /\ pc' = "direct"
  /\ UNCHANGED <<config, diag, result, exit_status, retries, attemptLocals,
                 returncode, now, children, streams, called, attempt, sleeps>>

\* l.142: subprocess.call(git_command)
DirectCall ==
  /\ pc = "direct"
  /\ \E code \in ExitCodes :
       /\ called' = Append(called, [cmd |-> git_command, rc |-> code])
       /\ result' = code
  /\ pc' = "sysexit"
  /\ UNCHANGED <<config, diag, git_args, git_command, exit_status, entered, retries,
                 attemptLocals, returncode, now, children, streams, attempt,
                 sleeps>>

\* l.144
SysExit ==
  /\ pc = "sysexit"
  /\ exit_status' = result
  /\ pc' = "exited"
  /\ UNCHANGED <<config, diag, git_args, git_command, result, entered, retries,
                 attemptLocals, returncode, now, children, streams, called,
                 attempt, sleeps>>

\* ------------------------------------------------------- run_git_command
\* the loop test written retries <= MAX_RETRIES
LoopTest_OffByOne ==
  /\ pc = "loop"
  /\ IF retries <= MAX_RETRIES
       THEN /\ pc' = "popen"
            /\ speed_measurements' = <<>>
            /\ diag' = IF retries > 0 THEN "attempt" ELSE diag
       ELSE pc' = "fallback" /\ UNCHANGED <<speed_measurements, diag>>
  /\ UNCHANGED <<config, mainLocals, retries, start_time,
                 last_speed_check_time, current_time, speed_reported, line,
                 returncode, now, children, streams, called, attempt, sleeps>>

\* l.42-43: the loop test and the fresh window
LoopTest ==
  /\ pc = "loop"
  /\ IF retries < MAX_RETRIES
       THEN /\ pc' = "popen"
            /\ speed_measurements' = <<>>
            /\ diag' = IF retries > 0 THEN "attempt" ELSE diag   \* l.44-48
       ELSE pc' = "fallback" /\ UNCHANGED <<speed_measurements, diag>>
  /\ UNCHANGED <<config, mainLocals, retries, start_time,
                 last_speed_check_time, current_time, speed_reported, line,
                 returncode, now, children, streams, called, attempt, sleeps>>

\* speed_reported initialised once before the loop, not per attempt
Popen_KeepFlag ==
  /\ pc = "popen"
  /\ children' = Append(children, "running")
  /\ returncode' = None
  /\ start_time' = now
  /\ last_speed_check_time' = now
  /\ childOut' = <<>>
  /\ stdout' = <<>>
  /\ attempt' = "STREAMING"
  /\ pc' = "read"
  /\ UNCHANGED <<config, diag, mainLocals, retries, speed_measurements,
                 speed_reported, current_time, line, now, called, sleeps>>

\* l.50-60: spawn the child, take the timestamps
Popen ==
  /\ pc = "popen"
  /\ children' = Append(children, "running")
  /\ returncode' = None
  /\ start_time' = now
  /\ last_speed_check_time' = now
  /\ speed_reported' = FALSE
  /\ childOut' = <<>>
  /\ stdout' = <<>>
  /\ attempt' = "STREAMING"
  /\ pc' = "read"
  /\ UNCHANGED <<config, diag, mainLocals, retries, speed_measurements,
                 current_time, line, now, called, sleeps>>

\* l.50: Popen raises (OSError); the call is outside the try block, so the
\* exception leaves run_git_command and main
PopenFault ==
  /\ pc = "popen"
  /\ pc' = "raised"
  /\ UNCHANGED <<config, diag, mainLocals, retries, attemptLocals, returncode, now,
                 children, streams, called, attempt, sleeps>>

\* l.63: the iterator blocks until the child has written a line
ReadLine ==
  /\ pc = "read"
  /\ Len(childOut) < MaxLines
  /\ \E raw \in Lines, dt \in 0..MaxStep :
       /\ childOut' = Append(childOut, raw)
       /\ line' = TextModeLine(raw)
       /\ now' = now + dt
  /\ pc' = "write"
  /\ UNCHANGED <<config, diag, mainLocals, retries, speed_measurements, start_time,
                 last_speed_check_time, current_time, speed_reported,
                 returncode, children, stdout, called, attempt, sleeps>>

\* l.63, l.104: the child closed its stream, the for loop ends without break
ReadEOF ==
  /\ pc = "read"
  /\ \E dt \in 0..MaxStep : now' = now + dt
  /\ pc' = "eof"
  /\ UNCHANGED <<config, diag, mainLocals, retries, attemptLocals, returncode,
                 children, streams, called, attempt, sleeps>>

\* l.111-112: an exception caught in the try block ends the attempt; the
\* handlers neither terminate nor wait for the child
Caught ==
  /\ diag' = "unexpected error"
  /\ attempt' = "ERRORED"
  /\ pc' = "bookkeep"

\* l.63: reading the stream raises (a byte the text layer cannot decode)
ReadFault ==
  /\ pc = "read"
  /\ Caught
  /\ UNCHANGED <<config, mainLocals, retries, attemptLocals, returncode, now,
                 children, streams, called, sleeps>>

\* l.64-67: relay the line, then read the clock
Write ==
  /\ pc = "write"
  /\ stdout' = Append(stdout, line)
  /\ current_time' = now
  /\ pc' = "stall"
  /\ UNCHANGED <<config, diag, mainLocals, retries, speed_measurements, start_time,
                 last_speed_check_time, speed_reported, line, returncode, now,
                 children, childOut, called, attempt, sleeps>>

\* l.64-65: writing to sys.stdout raises (the reader of our output is gone)
WriteFault ==
  /\ pc = "write"
  /\ Caught
  /\ UNCHANGED <<config, mainLocals, retries, attemptLocals, returncode, now,
                 children, streams, called, sleeps>>

\* the grace period compared with > instead of >=
StallCondition_Strict ==
  current_time - start_time > FETCH_TIMEOUT_BEFORE_SPEED_CHECK /\ ~speed_reported

\* l.69
StallCondition ==
  current_time - start_time >= FETCH_TIMEOUT_BEFORE_SPEED_CHECK /\ ~speed_reported

\* terminate() followed by break, the wait() of l.75 left out
StallCheck_NoWait ==
  /\ pc = "stall"
  /\ IF StallCondition
       THEN /\ diag' = "no speed reported"
            /\ children' = SetLast(children, "terminating")
            /\ attempt' = "STALLED"
            /\ pc' = "bookkeep"
       ELSE UNCHANGED <<children, diag, attempt>> /\ pc' = "parse"
  /\ UNCHANGED <<config, mainLocals, retries, attemptLocals, returncode, now,
                 streams, called, sleeps>>

\* l.69-74: the stall test; process.terminate() when it fires
StallCheck ==
  /\ pc = "stall"
  /\ IF StallCondition
       THEN /\ diag' = "no speed reported"
            /\ children' = SetLast(children, "terminating")
            /\ pc' = "stall_wait"
       ELSE UNCHANGED <<children, diag>> /\ pc' = "parse"
  /\ UNCHANGED <<config, mainLocals, retries, attemptLocals, returncode, now,
                 streams, called, attempt, sleeps>>

\* the exit status test of l.106 made after a break as well
WaitTerminated_ReturnsOnZero ==
  /\ pc \in {"stall_wait", "slow_wait"}
  /\ children' = SetLast(children, "reaped")
  /\ attempt' = IF pc = "stall_wait" THEN "STALLED" ELSE "SLOW"
  /\ \E code \in TermCodes :
       /\ returncode' = code
       /\ IF code = 0
            THEN result' = 0 /\ pc' = "sysexit"
            ELSE UNCHANGED result /\ pc' = "bookkeep"
  /\ UNCHANGED <<config, diag, git_args, git_command, exit_status, entered,
                 retries, attemptLocals, now, streams, called, sleeps>>

\* l.75-76 and l.99-100: process.wait() after terminate(), then break
WaitTerminated ==
  /\ pc \in {"stall_wait", "slow_wait"}
  /\ children' = SetLast(children, "reaped")
  /\ \E code \in TermCodes : returncode' = code
  /\ attempt' = IF pc = "stall_wait" THEN "STALLED" ELSE "SLOW"
  /\ pc' = "bookkeep"
  /\ UNCHANGED <<config, diag, mainLocals, retries, attemptLocals, now, streams,
                 called, sleeps>>

\* l.79-88: extract the throughput reading
Parse ==
  /\ pc = "parse"
  /\ IF SpeedMatch(line)
       THEN IF FloatOk(line.num)
              THEN /\ speed_reported' = TRUE
                   /\ speed_measurements' =
                        DequeAppend(speed_measurements, SPEED_WINDOW_SIZE, SpeedKiB(line))
                   /\ pc' = "speedcheck"
                   /\ UNCHANGED <<attempt, diag>>
              ELSE \* l.82: float() raises ValueError
                   /\ speed_reported' = TRUE
                   /\ Caught
                   /\ UNCHANGED speed_measurements
       ELSE /\ pc' = "speedcheck"
            /\ UNCHANGED <<speed_reported, speed_measurements, attempt, diag>>
  /\ UNCHANGED <<config, mainLocals, retries, start_time,
                 last_speed_check_time, current_time, line, returncode, now,
                 children, streams, called, sleeps>>

\* l.90
CheckDue == current_time - last_speed_check_time >= SPEED_CHECK_INTERVAL

\* l.91
WindowFull == Len(speed_measurements) = SPEED_WINDOW_SIZE

\* l.90-102: the slowness test; process.terminate() when it fires
SpeedCheck ==
  /\ pc = "speedcheck"
  /\ IF CheckDue
       THEN IF WindowFull
              THEN IF Len(speed_measurements) = 0
                     THEN \* l.92: ZeroDivisionError
                          /\ Caught
                          /\ UNCHANGED <<children, last_speed_check_time>>
                     ELSE IF AvgBelowThreshold(speed_measurements)
                            THEN /\ diag' = "average speed below threshold"
                                 /\ children' = SetLast(children, "terminating")
                                 /\ pc' = "slow_wait"
                                 /\ UNCHANGED <<attempt, last_speed_check_time>>
                            ELSE /\ last_speed_check_time' = current_time
                                 /\ pc' = "read"
                                 /\ UNCHANGED <<attempt, children, diag>>
              ELSE /\ last_speed_check_time' = current_time
                   /\ pc' = "read"
                   /\ UNCHANGED <<attempt, children, diag>>
       ELSE /\ pc' = "read"
            /\ UNCHANGED <<attempt, children, last_speed_check_time, diag>>
  /\ UNCHANGED <<config, mainLocals, retries, speed_measurements, start_time,
                 current_time, speed_reported, line, returncode, now, streams,
                 called, sleeps>>

\* exit status 0 not returned: the attempt goes on to the retry bookkeeping
EofWait_NoReturn ==
  /\ pc = "eof"
  /\ children' = SetLast(children, "reaped")
  /\ \E code \in ExitCodes :
       /\ returncode' = code
       /\ attempt' = IF code = 0 THEN "SUCCEEDED" ELSE "ERRORED"
  /\ pc' = "bookkeep"
  /\ UNCHANGED <<config, diag, mainLocals, retries, attemptLocals, now, streams,
                 called, sleeps>>

\* exit status 0 leaves the loop with break instead of return 0
EofWait_BreakOnSuccess ==
  /\ pc = "eof"
  /\ children' = SetLast(children, "reaped")
  /\ \E code \in ExitCodes :
       /\ returncode' = code
       /\ IF code = 0
            THEN attempt' = "SUCCEEDED" /\ pc' = "fallback"
            ELSE attempt' = "ERRORED" /\ pc' = "bookkeep"
  /\ UNCHANGED <<config, diag, mainLocals, retries, attemptLocals, now, streams,
                 called, sleeps>>

\* l.104-107: process.wait() at end of stream; return 0 on exit status 0
EofWait ==
  /\ pc = "eof"
  /\ children' = SetLast(children, "reaped")
  /\ \E code \in ExitCodes :
       /\ returncode' = code
       /\ IF code = 0
            THEN attempt' = "SUCCEEDED" /\ result' = 0 /\ pc' = "sysexit"
            ELSE attempt' = "ERRORED" /\ pc' = "bookkeep" /\ UNCHANGED result
  /\ UNCHANGED <<config, diag, git_args, git_command, exit_status, entered, retries,
                 attemptLocals, now, streams, called, sleeps>>

\* l.114-115
Bookkeep ==
  /\ pc = "bookkeep"
  /\ retries' = retries + 1
  /\ pc' = IF retries' < MAX_RETRIES THEN "sleep" ELSE "loop"
  /\ UNCHANGED <<config, diag, mainLocals, attemptLocals, returncode, now, children,
                 streams, called, attempt, sleeps>>

\* l.116
Sleep ==
  /\ pc = "sleep"
  /\ now' = now + RETRY_DELAY
  /\ sleeps' = sleeps + 1
  /\ pc' = "loop"
  /\ UNCHANGED <<config, diag, mainLocals, retries, attemptLocals, returncode,
                 children, streams, called, attempt>>

\* l.119-120: return subprocess.call(git_command)
Fallback ==
  /\ pc = "fallback"
  /\ \E code \in ExitCodes :
       /\ called' = Append(called, [cmd |-> git_command, rc |-> code])
       /\ result' = code
  /\ diag' = "exhausted all retries"
  /\ pc' = "sysexit"
  /\ UNCHANGED <<config, git_args, git_command, exit_status, entered, retries,
                 attemptLocals, returncode, now, children, streams, attempt,
                 sleeps>>

Next ==
  \/ CheckExecutable
  \/ Dispatch
  \/ DirectCall
  \/ SysExit
  \/ LoopTest
  \/ Popen
  \/ PopenFault
  \/ ReadLine
  \/ ReadEOF
  \/ ReadFault
  \/ Write
  \/ WriteFault
  \/ StallCheck
  \/ WaitTerminated
  \/ Parse
  \/ SpeedCheck
  \/ EofWait
  \/ Bookkeep
  \/ Sleep
  \/ Fallback

Spec == Init /\ [][Next]_vars

\* The single thread of control always takes its next step: every read
\* ends (the child writes a line or closes its stream), every wait and
\* every sleep returns.
LiveSpec == Init /\ [][Next]_vars /\ WF_vars(Next)

SpecDispatch == InitDispatch /\ [][Next]_vars

\* ---------------------------------------------------------------- helpers
Last(s) == s[Len(s)]

IsPrefix(s, t) == Len(s) <= Len(t) /\ \A i \in 1..Len(s) : s[i] = t[i]

\* run_git_command has returned to main
Returned == entered /\ pc \in {"sysexit", "exited"}

AllReaped == \A i \in 1..Len(children) : children[i] = "reaped"

Alive == {i \in 1..Len(children) : children[i] # "reaped"}

\* ----------------------------------------------------------------- claims

\* C1: when no monitored attempt succeeds, a returned run_git_command has
\* spawned exactly MAX_RETRIES monitored children (never more at any moment),
\* then made exactly one unmonitored execution of the same command, and its
\* return value is that execution's exit code.  MAX_RETRIES = 0 included.
C1_ExhaustionRunsFallbackOnce ==
  /\ entered => Len(children) <= MAX_RETRIES
  /\ (entered /\ called # <<>>) => Len(children) = MAX_RETRIES
  /\ (Returned /\ attempt # "SUCCEEDED") =>
       /\ Len(children) = MAX_RETRIES
       /\ retries = MAX_RETRIES
       /\ Len(called) = 1
       /\ called[1].cmd = git_command
       /\ result = called[1].rc

C1_Witness ==
  /\ Returned /\ attempt = "SLOW" /\ MAX_RETRIES = 2
  /\ Len(children) = 2 /\ Len(called) = 1 /\ result = 128

\* C2: a monitored attempt that reaches end-of-stream and whose child exits 0
\* makes run_git_command return 0 at once: the retry counter stays where the
\* earlier failures left it, no sleep follows it, no further child is spawned
\* and the fallback never runs.
C2_SuccessShortCircuits ==
  (entered /\ attempt = "SUCCEEDED") =>
    /\ Returned
    /\ result = 0
    /\ returncode = 0
    /\ called = <<>>
    /\ retries < MAX_RETRIES
    /\ Len(children) = retries + 1
    /\ sleeps = retries

C2_Witness ==
  /\ pc = "exited" /\ attempt = "SUCCEEDED" /\ MAX_RETRIES = 2
  /\ retries = 0 /\ exit_status = 0

\* C3: run_git_command never lets a fault escape to its caller (a failed
\* spawn included).
C3_NeverPropagates == pc # "raised"

\* C4: when a monitored attempt has ended, its child has been waited on
\* before the retry bookkeeping runs, so at most one child is alive and none
\* is alive when the next attempt or the fallback starts.
C4_ChildReapedBeforeBookkeeping ==
  /\ pc \in {"bookkeep", "sleep", "loop", "popen", "fallback"} => AllReaped
  /\ Cardinality(Alive) <= 1

C7_SlownessTermination ==
  [][ /\ (pc' = "slow_wait" /\ pc # "slow_wait")
          => /\ pc = "speedcheck"
             /\ current_time - last_speed_check_time >= SPEED_CHECK_INTERVAL
             /\ Len(speed_measurements) = SPEED_WINDOW_SIZE
             /\ Len(speed_measurements) > 0
             /\ Sum(speed_measurements) < SPEED_THRESHOLD * Len(speed_measurements)
      /\ (/\ pc = "speedcheck"
          /\ current_time - last_speed_check_time >= SPEED_CHECK_INTERVAL
          /\ Len(speed_measurements) = SPEED_WINDOW_SIZE
          /\ Len(speed_measurements) > 0
          /\ Sum(speed_measurements) < SPEED_THRESHOLD * Len(speed_measurements))
          => (pc' = "slow_wait" /\ Last(children') = "terminating")
      /\ pc = "slow_wait"
          => (pc' = "bookkeep" /\ attempt' = "SLOW"
                /\ Last(children') = "reaped" /\ retries' = retries)
      /\ (pc = "bookkeep" /\ attempt = "SLOW")
          => (retries' = retries + 1 /\ pc' \in {"sleep", "loop"})
    ]_vars

C7_Witness ==
  /\ pc = "slow_wait" /\ SPEED_WINDOW_SIZE = 2
  /\ speed_measurements = <<512, 512>>
  /\ Last(children) = "terminating"

\* C8: within an attempt the lines written to standard output are at all
\* times a prefix of the lines the child wrote, unmodified; a line is relayed
\* before any decision is taken on it, and at end-of-stream everything the
\* child wrote has been relayed.
C8_RelayIsVerbatim ==
  /\ IsPrefix(stdout, childOut)
  /\ pc \in {"stall", "parse", "speedcheck", "stall_wait", "slow_wait", "eof"}
       => Len(stdout) = Len(childOut)

\* C9 (past the executable check): for an argument vector without "fetch",
\* main makes exactly one execution, of [executable-path] + args unchanged,
\* never enters run_git_command (no child, no retry, no sleep), and exits
\* with that execution's exit code.
C9_NonFetchIsForwarded ==
  (exe_exists /\ ~Contains(argv, "fetch")) =>
    /\ ~entered
    /\ pc \in {"main", "args", "direct", "sysexit", "exited"}
    /\ children = <<>> /\ retries = 0 /\ sleeps = 0
    /\ Len(called) <= 1
    /\ pc \in {"sysexit", "exited"} =>
         /\ Len(called) = 1
         /\ called[1].cmd = <<GIT_EXECUTABLE_PATH>> \o argv
         /\ result = called[1].rc
    /\ pc = "exited" => exit_status = called[1].rc

C9_Witness ==
  /\ pc = "exited" /\ argv = <<"status", "--progress">>
  /\ exit_status = 128 /\ Len(called) = 1

\* C10: an argument vector with "fetch" anywhere reaches run_git_command;
\* the command it is given is [executable-path] + args + ["--progress"], the
\* flag once and last, when the flag was absent, and [executable-path] + args
\* unchanged when it was present; applying the rule again changes nothing.
C10_ProgressFlagOnce ==
  /\ (exe_exists /\ Contains(argv, "fetch") /\ pc \notin {"main", "args"})
       => entered
  /\ entered =>
       /\ Contains(argv, "fetch")
       /\ IF \A i \in 1..Len(argv) : argv[i] # "--progress"
            THEN /\ git_command = <<GIT_EXECUTABLE_PATH>> \o argv \o <<"--progress">>
                 /\ Count(git_command, "--progress") = 1
            ELSE /\ git_command = <<GIT_EXECUTABLE_PATH>> \o argv
                 /\ Count(git_command, "--progress") = Count(argv, "--progress")
       /\ EnsureProgress(Tail(git_command)) = Tail(git_command)
       /\ \A i \in 1..Len(called) : called[i].cmd = git_command

C10_Witness ==
  /\ entered /\ argv = <<"status", "fetch">>
  /\ git_command = <<GIT_EXECUTABLE_PATH, "status", "fetch", "--progress">>
  /\ pc = "read"

\* C11: when the configured executable path does not exist, main prints its
\* diagnostic and exits with status 1 before anything is executed: no child
\* is spawned, run_git_command is not entered, no direct call and no
\* fallback is made, whether or not the arguments hold "fetch".
C11_MissingExecutableExits ==
  ~exe_exists =>
    /\ pc \in {"main", "exited"}
    /\ ~entered
    /\ children = <<>>
    /\ called = <<>>
    /\ pc = "exited" => (exit_status = 1 /\ diag = "executable not found")

C11_Witness ==
  /\ pc = "exited" /\ ~exe_exists /\ argv = <<"fetch">>
  /\ exit_status = 1 /\ children = <<>> /\ called = <<>>

\* positions of the control thread inside a monitored attempt
InAttempt ==
  {"read", "write", "stall", "parse", "speedcheck", "stall_wait", "slow_wait", "eof"}

\* a line from which l.79-88 extract a reading
Extractable(l) == SpeedMatch(l) /\ FloatOk(l.num)

\* the lines of the current attempt that have been through l.79-88: all the
\* relayed lines, but the last one while it is still at the stall test
ParsedLines ==
  IF pc \in {"stall", "parse", "stall_wait"}
    THEN SubSeq(stdout, 1, Len(stdout) - 1)
    ELSE stdout

\* the readings extracted so far in the current attempt, in arrival order
Readings ==
  LET sel == SelectSeq(ParsedLines, Extractable)
  IN  [i \in 1..Len(sel) |-> SpeedKiB(sel[i])]

LastN(s, n) == SubSeq(s, Len(s) - n + 1, Len(s))

Min(a, b) == IF a <= b THEN a ELSE b

C13_RunEventuallyReturns == entered ~> Returned

\* what does hold of the code: the run ends, returning or raising
RunEventuallyEnds == entered ~> (Returned \/ pc = "raised")

\* C14: the reading of a line is extracted before the stall test looks at
\* that line, so an attempt is only ever terminated as stalled when no line
\* of the attempt, the one being processed included, carries a reading.
C14_StallOnlyWithoutAnyReading ==
  (pc = "stall_wait" \/ attempt = "STALLED") =>
    \A i \in 1..Len(stdout) : ~Extractable(stdout[i])

\* C15: at a due check with a full window whose mean equals the threshold or
\* lies above it, the child is not terminated and no retry is counted: the
\* attempt goes on to the next read with the last-check timestamp set to the
\* current time.  A step into the slowness termination has a mean strictly
\* below the threshold.
C15_StrictComparison ==
  [][ /\ (/\ pc = "speedcheck"
          /\ current_time - last_speed_check_time >= SPEED_CHECK_INTERVAL
          /\ Len(speed_measurements) = SPEED_WINDOW_SIZE
          /\ Len(speed_measurements) > 0
          /\ Sum(speed_measurements) >= SPEED_THRESHOLD * Len(speed_measurements))
          => /\ pc' = "read"
             /\ last_speed_check_time' = current_time
             /\ UNCHANGED <<children, retries, attempt, diag>>
      /\ (pc = "speedcheck" /\ pc' = "slow_wait")
          => Sum(speed_measurements) < SPEED_THRESHOLD * Len(speed_measurements)
    ]_vars

\* after a check at the second line, two seconds into the attempt, with a
\* window whose mean is exactly the threshold
C15_Witness ==
  /\ pc = "read" /\ attempt = "STREAMING" /\ SPEED_WINDOW_SIZE = 2
  /\ speed_measurements = <<512, 1000>>
  /\ Sum(speed_measurements) = SPEED_THRESHOLD * 2
  /\ current_time = start_time + 2
  /\ last_speed_check_time = current_time
  /\ Last(children) = "running"

\* C16: a child that has been asked to terminate is waited on by the very
\* next step: wherever a child is in that state the thread sits between
\* terminate() and wait(), and the step it takes there reaps that child and
\* does nothing else: no line read or relayed, no retry counted, no sleep,
\* no spawn, no call.
C16_TerminateThenWait ==
  [][ /\ (\E i \in 1..Len(children') : children'[i] = "terminating")
          => (pc' \in {"stall_wait", "slow_wait"}
                /\ Last(children') = "terminating")
      /\ pc \in {"stall_wait", "slow_wait"}
          => /\ Last(children) = "terminating"
             /\ children' = SetLast(children, "reaped")
             /\ pc' = "bookkeep"
             /\ UNCHANGED <<childOut, stdout, line, retries, sleeps, now, called>>
    ]_vars

C16_Witness ==
  /\ pc = "bookkeep" /\ attempt = "SLOW"
  /\ Last(children) = "reaped" /\ returncode = -15
  /\ retries = 1

\* C17 as claimed (the range, for a positive MAX_RETRIES): in every state of
\* run_git_command the retry counter lies in [0, MAX_RETRIES).
C17_RetriesBelowMax ==
  (entered /\ MAX_RETRIES > 0) => (0 <= retries /\ retries < MAX_RETRIES)

\* C17 as amended: the retry counter starts at 0, never decreases, goes up by
\* exactly 1 at the end of every non-successful monitored attempt and by
\* nothing else, and lies in the closed range [0, MAX_RETRIES]: below
\* MAX_RETRIES while an attempt is being started or is running, equal to
\* MAX_RETRIES when the fallback is reached.
C17_RetriesCounter ==
  /\ [](/\ retries \in 0..MAX_RETRIES
        /\ pc = "main" => retries = 0
        /\ pc \in InAttempt \cup {"popen"} => retries < MAX_RETRIES
        /\ pc = "fallback" => retries = MAX_RETRIES)
  /\ [][ /\ retries' >= retries
         /\ retries' # retries
             => (pc = "bookkeep" /\ attempt \in {"STALLED", "SLOW", "ERRORED"}
                   /\ retries' = retries + 1)
         /\ pc = "bookkeep" => retries' = retries + 1
         /\ (attempt' \in {"STALLED", "SLOW", "ERRORED"} /\ attempt' # attempt)
             => pc' = "bookkeep"
       ]_vars

C17_Witness ==
  /\ pc = "fallback" /\ MAX_RETRIES = 2 /\ retries = 2
  /\ attempt = "ERRORED" /\ Len(children) = 2

\* C18: every monitored attempt starts from fresh state: right after the
\* spawn the flag speed_reported is false, the window is empty and
\* start_time = last_speed_check_time = the time of the spawn, whatever the
\* earlier attempts left.  During the attempt the flag is only true when a
\* line of this attempt matched, and the elapsed time is counted from this
\* attempt's spawn (it never exceeds what the attempt's own reads can take).
C18_FreshAttemptState ==
  /\ (pc = "read" /\ childOut = <<>>) =>
       /\ ~speed_reported
       /\ speed_measurements = <<>>
       /\ start_time = now
       /\ last_speed_check_time = now
  /\ pc \in InAttempt =>
       /\ start_time <= last_speed_check_time
       /\ last_speed_check_time <= now
       /\ now - start_time <= (MaxLines + 1) * MaxStep
       /\ speed_reported => \E i \in 1..Len(stdout) : SpeedMatch(stdout[i])

C18_Witness ==
  /\ pc = "read" /\ childOut = <<>> /\ retries = 1 /\ Len(children) = 2
  /\ now >= 3 /\ start_time = now /\ ~speed_reported

\* C19: run_git_command returns either 0 from an attempt that reached
\* end-of-stream with exit status 0, or the exit code of the fallback, and
\* nothing else: a child terminated for stall or slowness never makes the
\* attempt a success, whatever its exit status, and a non-zero exit status
\* at end-of-stream only leads to the retry bookkeeping.
C19_FailedAttemptStatusNotReturned ==
  /\ [](/\ Returned =>
             \/ (attempt = "SUCCEEDED" /\ result = 0 /\ returncode = 0
                   /\ called = <<>>)
             \/ (attempt # "SUCCEEDED" /\ called # <<>>
                   /\ result = Last(called).rc)
        /\ (entered /\ ~Returned) => result = None)
  /\ [][ /\ pc \in {"stall_wait", "slow_wait"}
             => (attempt' \in {"STALLED", "SLOW"} /\ pc' = "bookkeep"
                   /\ UNCHANGED result)
         /\ (pc = "eof" /\ returncode' # 0)
             => (attempt' = "ERRORED" /\ pc' = "bookkeep"
                   /\ UNCHANGED <<result, retries>>)
         /\ (attempt' = "SUCCEEDED" /\ attempt # "SUCCEEDED")
             => (pc = "eof" /\ returncode' = 0)
       ]_vars

\* a child terminated for a stall whose exit status was 0: no success
C19_Witness ==
  /\ pc = "bookkeep" /\ attempt = "STALLED" /\ returncode = 0
  /\ result = None /\ Last(children) = "reaped"

\* C20: whenever the slowness check computes the mean (check due, window
\* full), the window holds at least one sample, for every configured window
\* size, 0 included.
C20_MeanOverNonEmptyWindow ==
  (/\ pc = "speedcheck"
   /\ current_time - last_speed_check_time >= SPEED_CHECK_INTERVAL
   /\ Len(speed_measurements) = SPEED_WINDOW_SIZE)
    => Len(speed_measurements) >= 1

====
